---------------------------- MODULE Spec2Model ----------------------------
(***************************************************************************)
(* Model of primitive-types/src/lib.rs: the fixed-width unsigned integers  *)
(* U128, U256, U512 (2, 4 and 8 little-endian limbs), the conversions      *)
(* between them, U256::full_mul, U256::from_f64_lossy, U256::to_f64_lossy  *)
(* and the H160 <-> H256 bridge.                                           *)
(*                                                                         *)
(* Scaling.  TLC's integers are 32 bits wide, so a 64-bit limb cannot be   *)
(* written down.  The limb is scaled from 64 bits to LimbBits bits and the *)
(* binary64 format (1 sign, 11 exponent, 52 fraction bits) to a binary     *)
(* format with 1 sign, ExpBits exponent and MantBits fraction bits.  The   *)
(* scaling keeps the relations the code relies on:                         *)
(*    - the limb counts 2, 4, 8 and the byte counts 20, 32 are unscaled;   *)
(*    - the significand (MantBits + 1 bits) fits in one limb  (53 <= 64);  *)
(*    - the largest finite exponent exceeds the U256 width (1023 > 256);   *)
(*    - every number the source writes as 64, 128, 256, 52, 1023 or 0x7ff  *)
(*      is the same expression of LimbBits, MantBits and ExpBits.          *)
(* Arrays are 1-based here: Rust arr[i] is arr[i + 1].                     *)
(***************************************************************************)
EXTENDS Integers, Sequences, FiniteSets, TLC

\* Number of conversions a caller chains on one value.
MaxSteps == 2

\* Width of one limb (u64 in the source), scaled.
LimbBits == 2
\* Fraction bits of the float format (52 in binary64), scaled.
MantBits == 1
\* Exponent bits of the float format (11 in binary64), scaled.
ExpBits == 5

\* Limb counts of construct_uint!.
U128Limbs == 2
U256Limbs == 4
U512Limbs == 8

\* Byte counts of construct_fixed_hash!.
H160Bytes == 20
H256Bytes == 32

LimbBase == 2 ^ LimbBits
Limb == 0 .. (LimbBase - 1)
\* u64::MAX as a limb.
LimbMax == LimbBase - 1

U128 == [1 .. U128Limbs -> Limb]
U256 == [1 .. U256Limbs -> Limb]
U512 == [1 .. U512Limbs -> Limb]

\* The bit width of U256 (the literal 256 of from_f64_lossy).
U256Bits == U256Limbs * LimbBits

-----------------------------------------------------------------------------
(* Numbers and limb arrays *)

RECURSIVE BitLen(_)
\* Number of bits of n: 0 for 0, else floor(log2 n) + 1.
BitLen(n) == IF n = 0 THEN 0 ELSE 1 + BitLen(n \div 2)

RECURSIVE BitOr(_, _)
\* The bitwise | of two unsigned words.
BitOr(a, b) ==
    IF a = 0 THEN b
    ELSE IF b = 0 THEN a
    ELSE (IF a % 2 = 1 \/ b % 2 = 1 THEN 1 ELSE 0) + 2 * BitOr(a \div 2, b \div 2)

RECURSIVE BitAnd(_, _)
\* The bitwise & of two unsigned words.
BitAnd(a, b) ==
    IF a = 0 \/ b = 0 THEN 0
    ELSE (IF a % 2 = 1 /\ b % 2 = 1 THEN 1 ELSE 0) + 2 * BitAnd(a \div 2, b \div 2)

RECURSIVE ValueFrom(_, _)
ValueFrom(arr, i) ==
    IF i > Len(arr) THEN 0 ELSE arr[i] + LimbBase * ValueFrom(arr, i + 1)

\* The number a limb array stands for: the sum of arr[i] * 2^(LimbBits * (i-1)).
ValueOf(arr) == ValueFrom(arr, 1)

\* The n-limb array of the number v, v < 2^(LimbBits * n).
ToLimbs(v, n) == [i \in 1 .. n |-> (v \div (LimbBase ^ (i - 1))) % LimbBase]

-----------------------------------------------------------------------------
(* Results of the fallible conversions *)

Ok(arr) == [ok |-> TRUE, val |-> arr]
\* Err(Error::Overflow): carries no value.
ErrOverflow == [ok |-> FALSE, val |-> <<>>]

-----------------------------------------------------------------------------
(* Widening conversions *)

\* Mutant: the copy of the fourth limb is left out.
From_U256_for_U512_drops_limb(arr) ==
    LET ret == [i \in 1 .. U512Limbs |-> 0]
    IN  [ret EXCEPT ![1] = arr[1], ![2] = arr[2], ![3] = arr[3]]

\* impl From<U256> for U512
From_U256_for_U512(arr) ==
    LET ret == [i \in 1 .. U512Limbs |-> 0]
    IN  [ret EXCEPT ![1] = arr[1], ![2] = arr[2], ![3] = arr[3], ![4] = arr[4]]

\* Mutant: both destination limbs are written from the first source limb.
From_U128_for_U512_repeats_limb(arr) ==
    LET ret == [i \in 1 .. U512Limbs |-> 0]
    IN  [ret EXCEPT ![1] = arr[1], ![2] = arr[1]]

\* impl From<U128> for U512
From_U128_for_U512(arr) ==
    LET ret == [i \in 1 .. U512Limbs |-> 0]
    IN  [ret EXCEPT ![1] = arr[1], ![2] = arr[2]]

\* impl From<U128> for U256
From_U128_for_U256(arr) ==
    LET ret == [i \in 1 .. U256Limbs |-> 0]
    IN  [ret EXCEPT ![1] = arr[1], ![2] = arr[2]]

\* impl<'a> From<&'a U256> for U512
From_refU256_for_U512(arr) ==
    LET ret == [i \in 1 .. U512Limbs |-> 0]
    IN  [ret EXCEPT ![1] = arr[1], ![2] = arr[2], ![3] = arr[3], ![4] = arr[4]]

-----------------------------------------------------------------------------
(* Narrowing conversions *)

\* impl TryFrom<U256> for U128
TryFrom_U256_for_U128(arr) ==
    IF BitOr(arr[3], arr[4]) # 0
    THEN ErrOverflow
    ELSE LET ret == [i \in 1 .. U128Limbs |-> 0]
         IN  Ok([ret EXCEPT ![1] = arr[1], ![2] = arr[2]])

\* impl TryFrom<U512> for U256
TryFrom_U512_for_U256(arr) ==
    IF BitOr(BitOr(BitOr(arr[5], arr[6]), arr[7]), arr[8]) # 0
    THEN ErrOverflow
    ELSE LET ret == [i \in 1 .. U256Limbs |-> 0]
         IN  Ok([ret EXCEPT ![1] = arr[1], ![2] = arr[2], ![3] = arr[3], ![4] = arr[4]])

\* Mutant: the check starts one limb too high and misses arr[2].
TryFrom_U512_for_U128_misses_limb(arr) ==
    IF BitOr(BitOr(BitOr(BitOr(arr[4], arr[5]), arr[6]), arr[7]), arr[8]) # 0
    THEN ErrOverflow
    ELSE LET ret == [i \in 1 .. U128Limbs |-> 0]
         IN  Ok([ret EXCEPT ![1] = arr[1], ![2] = arr[2]])

\* impl TryFrom<U512> for U128
TryFrom_U512_for_U128(arr) ==
    IF BitOr(BitOr(BitOr(BitOr(BitOr(arr[3], arr[4]), arr[5]), arr[6]), arr[7]), arr[8]) # 0
    THEN ErrOverflow
    ELSE LET ret == [i \in 1 .. U128Limbs |-> 0]
         IN  Ok([ret EXCEPT ![1] = arr[1], ![2] = arr[2]])

\* impl<'a> TryFrom<&'a U512> for U256
TryFrom_refU512_for_U256(arr) ==
    IF BitOr(BitOr(BitOr(arr[5], arr[6]), arr[7]), arr[8]) # 0
    THEN ErrOverflow
    ELSE LET ret == [i \in 1 .. U256Limbs |-> 0]
         IN  Ok([ret EXCEPT ![1] = arr[1], ![2] = arr[2], ![3] = arr[3], ![4] = arr[4]])

-----------------------------------------------------------------------------
(* The arithmetic kernel of the uint crate, as far as lib.rs uses it.       *)
(* Its code is not part of lib.rs; it is modelled from its contract.        *)

RECURSIVE MulRow(_, _, _, _, _, _)
\* One row of the multiply-with-carry: ret += me * b * 2^(LimbBits * (i-1)),
\* limb by limb from column j on, the carry going into the next limb.
MulRow(ret, me, b, i, j, carry) ==
    IF j > Len(me)
    THEN [ret EXCEPT ![i + j - 1] = carry]
    ELSE LET t == me[j] * b + ret[i + j - 1] + carry
         IN  MulRow([ret EXCEPT ![i + j - 1] = t % LimbBase],
                    me, b, i, j + 1, t \div LimbBase)

RECURSIVE MulRows(_, _, _, _)
MulRows(ret, me, you, i) ==
    IF i > Len(you) THEN ret
    ELSE MulRows(MulRow(ret, me, you[i], i, 1, 0), me, you, i + 1)

\* uint_full_mul_reg!(U256, 4, self, other): the 8 limbs of the full product.
uint_full_mul_reg(me, you) ==
    MulRows([i \in 1 .. (Len(me) + Len(you)) |-> 0], me, you, 1)

\* U256 >> n: the limbs of floor(value / 2^n).
Shr(arr, n) == ToLimbs(ValueOf(arr) \div (2 ^ n), Len(arr))

\* U256 << n: the limbs of value * 2^n, the bits moved past the top dropped.
Shl(arr, n) == ToLimbs((ValueOf(arr) * (2 ^ n)) % (LimbBase ^ Len(arr)), Len(arr))

\* U256::low_u128: the number held by the two low limbs.
low_u128(arr) == arr[1] + LimbBase * arr[2]

\* U256::from(x) for an unsigned machine word x.
U256_from(x) == ToLimbs(x, U256Limbs)

\* U256::MAX: every bit set.
U256_MAX == [i \in 1 .. U256Limbs |-> LimbMax]

-----------------------------------------------------------------------------
(* U256::full_mul *)

\* Mutant: the same-width, wrapping product, zero-extended.
full_mul_wrapping(self, other) ==
    LET p == uint_full_mul_reg(self, other)
    IN  [i \in 1 .. U512Limbs |-> IF i <= U256Limbs THEN p[i] ELSE 0]

full_mul(self, other) == uint_full_mul_reg(self, other)

-----------------------------------------------------------------------------
(* The float format: a value is its bit pattern, sign | exponent | fraction *)

\* The exponent bias (1023 in binary64).
Bias == 2 ^ (ExpBits - 1) - 1
\* The exponent field mask (0x7ff in binary64).
ExpMask == 2 ^ ExpBits - 1
\* The fraction mask (0x0f_ffff_ffff_ffff in binary64).
FracMask == 2 ^ MantBits - 1
\* The implicit leading bit (0x10_0000_0000_0000 in binary64).
HiddenBit == 2 ^ MantBits
\* Width of the word holding the bit pattern (u64 for binary64).
WordBits == 1 + ExpBits + MantBits
F64 == 0 .. (2 ^ WordBits - 1)

F64Sign(bits) == bits \div (2 ^ (ExpBits + MantBits))
F64ExpField(bits) == (bits \div (2 ^ MantBits)) % (2 ^ ExpBits)
F64Frac(bits) == bits % (2 ^ MantBits)

F64IsNaN(bits) == F64ExpField(bits) = ExpMask /\ F64Frac(bits) # 0
F64IsInf(bits) == F64ExpField(bits) = ExpMask /\ F64Frac(bits) = 0
F64IsFinite(bits) == F64ExpField(bits) # ExpMask

\* The scaled 1: every finite magnitude times F64Unit is an integer.
F64Unit == 2 ^ (Bias - 1 + MantBits)

\* |value| * F64Unit of a finite pattern (subnormals have exponent field 0).
F64Mag(bits) ==
    IF F64ExpField(bits) = 0
    THEN F64Frac(bits)
    ELSE (HiddenBit + F64Frac(bits)) * (2 ^ (F64ExpField(bits) - 1))

\* A key above every finite magnitude, for the infinities.
F64InfKey == (HiddenBit + FracMask) * (2 ^ (ExpMask - 2)) + 1

\* value * F64Unit as a signed integer, the infinities at +-F64InfKey.
F64Key(bits) ==
    LET m == IF F64IsInf(bits) THEN F64InfKey ELSE F64Mag(bits)
    IN  IF F64Sign(bits) = 1 THEN 0 - m ELSE m

\* The comparison a >= b of two floats: false when either is NaN.
F64Ge(a, b) == ~F64IsNaN(a) /\ ~F64IsNaN(b) /\ F64Key(a) >= F64Key(b)

\* The comparison a > b of two floats: false when either is NaN.
F64Gt(a, b) == ~F64IsNaN(a) /\ ~F64IsNaN(b) /\ F64Key(a) > F64Key(b)

\* The literal 1.0.
F64One == Bias * (2 ^ MantBits)
\* The literal 0.0.
F64Zero == 0
\* +infinity.
F64PosInf == ExpMask * (2 ^ MantBits)

\* 2.0f64.powi(k) for 0 <= k <= Bias: the exact power of two.
F64Powi2(k) == (Bias + k) * (2 ^ MantBits)

\* m / 2^shift rounded to the nearest integer, ties to the even one.
RoundNearestEven(m, shift) ==
    IF shift <= 0 THEN m * (2 ^ (0 - shift))
    ELSE LET q == m \div (2 ^ shift)
             r == m % (2 ^ shift)
             half == 2 ^ (shift - 1)
         IN  IF r > half \/ (r = half /\ q % 2 = 1) THEN q + 1 ELSE q

\* The float nearest to m * 2^e (m > 0), ties to even: what a cast and a
\* multiplication round their exact result to.
F64Round(m, e) ==
    LET top == e + BitLen(m) - 1
        qe == IF top >= 1 - Bias THEN top - MantBits ELSE 1 - Bias - MantBits
        q0 == RoundNearestEven(m, qe - e)
        carry == q0 >= 2 * HiddenBit
        q == IF carry THEN q0 \div 2 ELSE q0
        qexp == IF carry THEN qe + 1 ELSE qe
        field == qexp + MantBits + Bias
    IN  IF q < HiddenBit THEN q
        ELSE IF field >= ExpMask THEN F64PosInf
        ELSE field * (2 ^ MantBits) + (q - HiddenBit)

\* `x as f64` for an unsigned integer x (u128 in the source).
U128_as_f64(x) == IF x = 0 THEN F64Zero ELSE F64Round(x, 0)

\* a * b for non-negative finite floats a, b.
F64Mul(a, b) ==
    LET ma == IF F64ExpField(a) = 0 THEN F64Frac(a) ELSE HiddenBit + F64Frac(a)
        mb == IF F64ExpField(b) = 0 THEN F64Frac(b) ELSE HiddenBit + F64Frac(b)
        ea == (IF F64ExpField(a) = 0 THEN 1 ELSE F64ExpField(a)) - Bias - MantBits
        eb == (IF F64ExpField(b) = 0 THEN 1 ELSE F64ExpField(b)) - Bias - MantBits
    IN  IF ma = 0 \/ mb = 0 THEN F64Zero ELSE F64Round(ma * mb, ea + eb)

-----------------------------------------------------------------------------
(* U256::from_f64_lossy *)

\* Mutant: the branch is taken for every positive value.
from_f64_in_range_positive(value) == F64Gt(value, F64Zero)

\* `value >= 1.0`: whether the bit-manipulation branch is taken.
from_f64_in_range(value) == F64Ge(value, F64One)

\* `((bits >> 52) & 0x7ff) - 1023` on unsigned words: a field below the bias
\* underflows (a panic with overflow checks, a wrapped word without).
from_f64_exponent(bits) ==
    (BitAnd(bits \div (2 ^ MantBits), ExpMask) - Bias) % (2 ^ WordBits)

\* `(bits & 0x0f_ffff_ffff_ffff) | 0x10_0000_0000_0000`
from_f64_mantissa(bits) == BitOr(BitAnd(bits, FracMask), HiddenBit)

\* `exponent <= 52`: the significand holds the whole integer part.
from_f64_shifts_right(exponent) == exponent <= MantBits

\* Mutant: the boundary exponent 256 is shifted instead of saturated.
from_f64_saturates_above(exponent) == exponent > U256Bits

\* `exponent >= 256`: the value does not fit in 256 bits.
from_f64_saturates(exponent) == exponent >= U256Bits

from_f64_lossy(value) ==
    IF from_f64_in_range(value)
    THEN LET bits == value
             exponent == from_f64_exponent(bits)
             mantissa == from_f64_mantissa(bits)
         IN  IF from_f64_shifts_right(exponent)
             THEN U256_from(mantissa \div (2 ^ (MantBits - exponent)))
             ELSE IF from_f64_saturates(exponent)
             THEN U256_MAX
             ELSE Shl(U256_from(mantissa), exponent - MantBits)
    ELSE U256_from(0)

\* The arithmetic faults on the path from_f64_lossy takes for `value`:
\*   sub_underflow  the subtraction of the bias goes below zero,
\*   shr_range      the right shift amount is outside 0 .. 52,
\*   shl_lost       the left shift moves a set bit past the top bit.
from_f64_faults(value) ==
    IF from_f64_in_range(value)
    THEN LET field == BitAnd(value \div (2 ^ MantBits), ExpMask)
             exponent == from_f64_exponent(value)
             mantissa == from_f64_mantissa(value)
         IN  (IF field < Bias THEN {"sub_underflow"} ELSE {})
             \cup (IF from_f64_shifts_right(exponent)
                      /\ (MantBits - exponent) \notin 0 .. MantBits
                   THEN {"shr_range"} ELSE {})
             \cup (IF ~from_f64_shifts_right(exponent)
                      /\ ~from_f64_saturates(exponent)
                      /\ BitLen(mantissa) + (exponent - MantBits) > U256Bits
                   THEN {"shl_lost"} ELSE {})
    ELSE {}

-----------------------------------------------------------------------------
(* U256::to_f64_lossy *)

\* Mutant: the top tier restores the scale with the factor of the middle tier.
to_f64_parts_same_factor(self) ==
    IF self[3] = 0 /\ self[4] = 0
    THEN [res |-> self, factor |-> F64One]
    ELSE IF self[4] = 0
    THEN [res |-> Shr(self, LimbBits), factor |-> F64Powi2(LimbBits)]
    ELSE [res |-> Shr(self, 2 * LimbBits), factor |-> F64Powi2(LimbBits)]

\* The match on the limbs: the shifted value and the factor restoring it.
to_f64_parts(self) ==
    IF self[3] = 0 /\ self[4] = 0
    THEN [res |-> self, factor |-> F64One]
    ELSE IF self[4] = 0
    THEN [res |-> Shr(self, LimbBits), factor |-> F64Powi2(LimbBits)]
    ELSE [res |-> Shr(self, 2 * LimbBits), factor |-> F64Powi2(2 * LimbBits)]

\* Mutant: only the lowest limb of the shifted value is promoted.
to_f64_lossy_low_u64(self) ==
    LET parts == to_f64_parts(self)
    IN  F64Mul(U128_as_f64(parts.res[1]), parts.factor)

to_f64_lossy(self) ==
    LET parts == to_f64_parts(self)
    IN  F64Mul(U128_as_f64(low_u128(parts.res)), parts.factor)

-----------------------------------------------------------------------------
(* impl_fixed_hash_conversions!(H256, H160), of the fixed-hash crate.       *)
(* Byte 1 is the high-order byte of an identifier.                          *)

\* From<H160> for H256: the 20 bytes go to the low-order positions.
From_H160_for_H256(value) ==
    [i \in 1 .. H256Bytes |->
        IF i > H256Bytes - H160Bytes THEN value[i - (H256Bytes - H160Bytes)] ELSE 0]

\* Mutant: the high-order 20 bytes are kept.
From_H256_for_H160_keeps_high(value) == [i \in 1 .. H160Bytes |-> value[i]]

\* From<H256> for H160: the low-order 20 bytes are kept, with no check.
From_H256_for_H160(value) ==
    [i \in 1 .. H160Bytes |-> value[i + (H256Bytes - H160Bytes)]]

-----------------------------------------------------------------------------
(* The state: a caller holds one value and moves it through conversions.    *)
(*   hist   the values held so far, the last one current; a value is        *)
(*          [ty, v]: a type name and its limbs, its bytes or, for a float,  *)
(*          the one-element sequence of its bit pattern;                    *)
(*          ty = "Err" after a failed narrowing (no value is held);         *)
(*   ops    the operations applied, ops[i] leading from hist[i] to          *)
(*          hist[i+1]; arg is the second operand of full_mul;               *)
(*   fault  the arithmetic faults of the last operation.                    *)

VARIABLES hist, ops, fault

vars == <<hist, ops, fault>>

Val(ty, v) == [ty |-> ty, v |-> v]
ErrVal == [ty |-> "Err", v |-> <<>>]

\* The value a caller holds after a fallible conversion to type ty.
ResultVal(ty, r) == IF r.ok THEN Val(ty, r.val) ELSE ErrVal

Cur == hist[Len(hist)]

\* The sampled bytes of the identifiers.
ByteSamples == {0, 1, 128, 255}

\* Identifiers of n bytes with at most two bytes set.
HashInputs(n) ==
    { [i \in 1 .. n |-> IF i = p THEN a ELSE IF i = q THEN b ELSE 0] :
        p \in 1 .. n, q \in 1 .. n, a \in ByteSamples, b \in ByteSamples }

UintInputs == {Val("U128", x) : x \in U128} \cup {Val("U256", x) : x \in U256}
                 \cup {Val("U512", x) : x \in U512}
MulInputs == {Val("U256", x) : x \in U256}
FloatInputs == {Val("F64", <<x>>) : x \in F64} \cup {Val("U256", x) : x \in U256}
HashInputs160 == {Val("H160", x) : x \in HashInputs(H160Bytes)}
HashInputs256 == {Val("H256", x) : x \in HashInputs(H256Bytes)}

InitWith(inputs) ==
    /\ hist \in {<<x>> : x \in inputs}
    /\ ops = <<>>
    /\ fault = {}

Step(name, arg, new, flt) ==
    /\ Len(ops) < MaxSteps
    /\ hist' = Append(hist, new)
    /\ ops' = Append(ops, [name |-> name, arg |-> arg])
    /\ fault' = flt

Widen_U256_U512 ==
    /\ Cur.ty = "U256"
    /\ Step("From<U256> for U512", <<>>, Val("U512", From_U256_for_U512(Cur.v)), {})

Widen_U128_U512 ==
    /\ Cur.ty = "U128"
    /\ Step("From<U128> for U512", <<>>, Val("U512", From_U128_for_U512(Cur.v)), {})

Widen_U128_U256 ==
    /\ Cur.ty = "U128"
    /\ Step("From<U128> for U256", <<>>, Val("U256", From_U128_for_U256(Cur.v)), {})

Widen_refU256_U512 ==
    /\ Cur.ty = "U256"
    /\ Step("From<&U256> for U512", <<>>, Val("U512", From_refU256_for_U512(Cur.v)), {})

Narrow_U256_U128 ==
    /\ Cur.ty = "U256"
    /\ Step("TryFrom<U256> for U128", <<>>,
            ResultVal("U128", TryFrom_U256_for_U128(Cur.v)), {})

Narrow_U512_U256 ==
    /\ Cur.ty = "U512"
    /\ Step("TryFrom<U512> for U256", <<>>,
            ResultVal("U256", TryFrom_U512_for_U256(Cur.v)), {})

Narrow_U512_U128 ==
    /\ Cur.ty = "U512"
    /\ Step("TryFrom<U512> for U128", <<>>,
            ResultVal("U128", TryFrom_U512_for_U128(Cur.v)), {})

Narrow_refU512_U256 ==
    /\ Cur.ty = "U512"
    /\ Step("TryFrom<&U512> for U256", <<>>,
            ResultVal("U256", TryFrom_refU512_for_U256(Cur.v)), {})

FullMul ==
    /\ Cur.ty = "U256"
    /\ \E other \in U256 :
          Step("full_mul", other, Val("U512", full_mul(Cur.v, other)), {})

FromF64Lossy ==
    /\ Cur.ty = "F64"
    /\ Step("from_f64_lossy", <<>>, Val("U256", from_f64_lossy(Cur.v[1])),
            from_f64_faults(Cur.v[1]))

ToF64Lossy ==
    /\ Cur.ty = "U256"
    /\ Step("to_f64_lossy", <<>>, Val("F64", <<to_f64_lossy(Cur.v)>>), {})

Embed_H160_H256 ==
    /\ Cur.ty = "H160"
    /\ Step("From<H160> for H256", <<>>, Val("H256", From_H160_for_H256(Cur.v)), {})

Truncate_H256_H160 ==
    /\ Cur.ty = "H256"
    /\ Step("From<H256> for H160", <<>>, Val("H160", From_H256_for_H160(Cur.v)), {})

\* The integer conversions.
InitConv == InitWith(UintInputs)
NextConv ==
    \/ Widen_U256_U512
    \/ Widen_U128_U512
    \/ Widen_U128_U256
    \/ Widen_refU256_U512
    \/ Narrow_U256_U128
    \/ Narrow_U512_U256
    \/ Narrow_U512_U128
    \/ Narrow_refU512_U256
SpecConv == InitConv /\ [][NextConv]_vars

\* The widening multiplication.
InitMul == InitWith(MulInputs)
NextMul == FullMul
SpecMul == InitMul /\ [][NextMul]_vars

\* The float conversions.
InitFloat == InitWith(FloatInputs)
NextFloat == FromF64Lossy \/ ToF64Lossy
SpecFloat == InitFloat /\ [][NextFloat]_vars

\* The identifier bridge.
InitHash == InitWith(HashInputs160 \cup HashInputs256)
NextHash == Embed_H160_H256 \/ Truncate_H256_H160
SpecHash == InitHash /\ [][NextHash]_vars

\* The whole library.
Init == InitWith(UintInputs \cup FloatInputs \cup HashInputs160 \cup HashInputs256)
Next == NextConv \/ NextMul \/ NextFloat \/ NextHash
Spec == Init /\ [][Next]_vars

-----------------------------------------------------------------------------
(* Properties.  Step i of a run applied ops[i] to hist[i] and gave          *)
(* hist[i + 1].                                                             *)

Steps == 1 .. Len(ops)
Src(i) == hist[i]
Out(i) == hist[i + 1]
Abs(x) == IF x < 0 THEN 0 - x ELSE x

\* The narrowing conversions: name, source type, target type, target limbs.
Narrowings ==
    { <<"TryFrom<U256> for U128", "U256", "U128", U128Limbs>>,
      <<"TryFrom<U512> for U256", "U512", "U256", U256Limbs>>,
      <<"TryFrom<U512> for U128", "U512", "U128", U128Limbs>>,
      <<"TryFrom<&U512> for U256", "U512", "U256", U256Limbs>> }

\* The widening conversions: name, source type, target type, target limbs.
Widenings ==
    { <<"From<U128> for U256", "U128", "U256", U256Limbs>>,
      <<"From<U128> for U512", "U128", "U512", U512Limbs>>,
      <<"From<U256> for U512", "U256", "U512", U512Limbs>>,
      <<"From<&U256> for U512", "U256", "U512", U512Limbs>> }

HighLimbsZero(arr, n) == \A k \in (n + 1) .. Len(arr) : arr[k] = 0

\* C1: a narrowing conversion returns Ok iff every source limb at or above
\* the target limb count is zero; Ok carries exactly the low limbs of the
\* source (the same number); otherwise the result is Err(Overflow) with no
\* value.  The target maximum narrows, the maximum plus one does not.
C1_NarrowingChecked ==
    \A i \in Steps : \A c \in Narrowings :
        ops[i].name = c[1] =>
            LET src == Src(i).v
                out == Out(i)
                n == c[4]
            IN  /\ Src(i).ty = c[2]
                /\ (out.ty # "Err") <=> HighLimbsZero(src, n)
                /\ out.ty # "Err" =>
                      /\ out.ty = c[3]
                      /\ out.v = [k \in 1 .. n |-> src[k]]
                      /\ ValueOf(out.v) = ValueOf(src)
                /\ out.ty = "Err" => out = ErrVal
                /\ ValueOf(src) = LimbBase ^ n - 1 => out.ty = c[3]
                /\ ValueOf(src) = LimbBase ^ n => out.ty = "Err"

\* A U512 equal to 2^256 was narrowed to U256 and the result is Overflow.
C1_Witness ==
    /\ Len(ops) = 1
    /\ ops[1].name = "TryFrom<U512> for U256"
    /\ ValueOf(hist[1].v) = LimbBase ^ U256Limbs
    /\ hist[2] = ErrVal

\* C2: a widening conversion never fails; the low limbs of the destination
\* are the source limbs in order, every higher limb is zero, and the number
\* is unchanged.
C2_WideningLossless ==
    \A i \in Steps : \A c \in Widenings :
        ops[i].name = c[1] =>
            LET src == Src(i).v
                out == Out(i)
            IN  /\ Src(i).ty = c[2]
                /\ out.ty = c[3]
                /\ Len(out.v) = c[4]
                /\ \A k \in 1 .. c[4] :
                      out.v[k] = IF k <= Len(src) THEN src[k] ELSE 0
                /\ ValueOf(out.v) = ValueOf(src)

\* The largest U128 was widened to U512.
C2_Witness ==
    /\ Len(ops) = 1
    /\ ops[1].name = "From<U128> for U512"
    /\ hist[1].v = [k \in 1 .. U128Limbs |-> LimbMax]
    /\ ValueOf(hist[2].v) = LimbBase ^ U128Limbs - 1

\* C3: widening a value and narrowing the result back to the width it came
\* from returns Ok with the original value, for each of (128, 256),
\* (128, 512) and (256, 512).
C3_WidenNarrowRoundTrip ==
    \A i \in Steps : \A w \in Widenings : \A n \in Narrowings :
        ( /\ i + 1 \in Steps
          /\ ops[i].name = w[1]
          /\ ops[i + 1].name = n[1]
          /\ n[3] = w[2] )
        => /\ hist[i + 2].ty = hist[i].ty
           /\ hist[i + 2].v = hist[i].v

\* The largest U256 went to U512 and came back.
C3_Witness ==
    /\ Len(ops) = 2
    /\ ops[1].name = "From<U256> for U512"
    /\ ops[2].name = "TryFrom<U512> for U256"
    /\ hist[1].v = U256_MAX
    /\ hist[3] = hist[1]

\* C4: full_mul is total and exact: the 8 limbs of the result, read as the
\* sum of limb[i] * 2^(LimbBits * i), are the product of the two operands.
C4_FullMulExact ==
    \A i \in Steps :
        ops[i].name = "full_mul" =>
            /\ Out(i).ty = "U512"
            /\ Out(i).v \in U512
            /\ ValueOf(Out(i).v) = ValueOf(Src(i).v) * ValueOf(ops[i].arg)

\* The largest U256 was squared.
C4_Witness ==
    /\ Len(ops) = 1
    /\ ops[1].name = "full_mul"
    /\ hist[1].v = U256_MAX
    /\ ops[1].arg = U256_MAX
    /\ hist[2].v[U512Limbs] = LimbMax

\* 2^256 as a float magnitude times F64Unit.
U256RangeKey == (2 ^ U256Bits) * F64Unit

\* C5: from_f64_lossy follows the saturating truncation policy on every bit
\* pattern: NaN, every value <= 0 and every value in (0, 1) give 0; a finite
\* value v with 1 <= v < 2^256 gives floor(v); every value >= 2^256 and
\* +infinity give U256::MAX.
C5_FromF64Policy ==
    \A i \in Steps :
        ops[i].name = "from_f64_lossy" =>
            LET x == Src(i).v[1]
                r == Out(i).v
                key == F64Key(x)
            IN  /\ Out(i).ty = "U256"
                /\ r \in U256
                /\ F64IsNaN(x) => ValueOf(r) = 0
                /\ (~F64IsNaN(x) /\ key <= 0) => ValueOf(r) = 0
                /\ (~F64IsNaN(x) /\ 0 < key /\ key < F64Unit) => ValueOf(r) = 0
                /\ (~F64IsNaN(x) /\ F64Unit <= key /\ key < U256RangeKey)
                      => ValueOf(r) = key \div F64Unit
                /\ (~F64IsNaN(x) /\ key >= U256RangeKey)
                      => (r = U256_MAX /\ ValueOf(r) = 2 ^ U256Bits - 1)

\* The float 1.5 * 2^255, the largest below 2^256, was converted and its
\* top two bits are the set bits of the result.
C5_Witness ==
    /\ Len(ops) = 1
    /\ ops[1].name = "from_f64_lossy"
    /\ hist[1].v[1] = F64Powi2(U256Bits - 1) + FracMask
    /\ ValueOf(hist[2].v) = (HiddenBit + FracMask) * (2 ^ (U256Bits - 1 - MantBits))

\* C6: to_f64_lossy returns the float closest to the integer: no finite
\* float is nearer to v than the result, in every limb tier.
C6_ToF64Nearest ==
    \A i \in Steps :
        ops[i].name = "to_f64_lossy" =>
            LET v == ValueOf(Src(i).v) * F64Unit
                f == Out(i).v[1]
            IN  /\ F64IsFinite(f)
                /\ \A g \in F64 :
                      F64IsFinite(g) => Abs(F64Key(f) - v) <= Abs(F64Key(g) - v)

RECURSIVE TrailingZeros(_)
TrailingZeros(n) == IF n = 0 \/ n % 2 = 1 THEN 0 ELSE 1 + TrailingZeros(n \div 2)

\* The significant bits of n: from its highest to its lowest set bit.
SigBits(n) == BitLen(n) - TrailingZeros(n)

\* C7: a U256 with fewer significant bits than the float's significand has
\* (53 for binary64) comes back unchanged from to_f64_lossy followed by
\* from_f64_lossy.
C7_FloatRoundTrip ==
    \A i \in Steps :
        ( /\ i + 1 \in Steps
          /\ ops[i].name = "to_f64_lossy"
          /\ ops[i + 1].name = "from_f64_lossy"
          /\ SigBits(ValueOf(hist[i].v)) < MantBits + 1 )
        => /\ hist[i + 2].ty = "U256"
           /\ hist[i + 2].v = hist[i].v

\* 2^255, whose only set bit is in the top limb, made the round trip.
C7_Witness ==
    /\ Len(ops) = 2
    /\ ops[1].name = "to_f64_lossy"
    /\ ops[2].name = "from_f64_lossy"
    /\ ValueOf(hist[1].v) = 2 ^ (U256Bits - 1)
    /\ hist[3] = hist[1]

HighBytes == 1 .. (H256Bytes - H160Bytes)

\* C8: embedding an H160 zero-fills the 12 high-order bytes, truncating
\* keeps the low-order 20 bytes, so embed-then-truncate returns the H160;
\* truncate-then-embed of an H256 whose 12 high-order bytes are not all zero
\* does not return that H256.
C8_HashBridge ==
    \A i \in Steps :
        /\ ops[i].name = "From<H160> for H256" =>
              /\ Out(i).ty = "H256"
              /\ \A k \in HighBytes : Out(i).v[k] = 0
              /\ \A k \in 1 .. H160Bytes : Out(i).v[k + H256Bytes - H160Bytes] = Src(i).v[k]
        /\ ops[i].name = "From<H256> for H160" =>
              /\ Out(i).ty = "H160"
              /\ \A k \in 1 .. H160Bytes : Out(i).v[k] = Src(i).v[k + H256Bytes - H160Bytes]
        /\ ( /\ i + 1 \in Steps
             /\ ops[i].name = "From<H160> for H256"
             /\ ops[i + 1].name = "From<H256> for H160" )
           => hist[i + 2] = hist[i]
        /\ ( /\ i + 1 \in Steps
             /\ ops[i].name = "From<H256> for H160"
             /\ ops[i + 1].name = "From<H160> for H256"
             /\ \E k \in HighBytes : hist[i].v[k] # 0 )
           => hist[i + 2] # hist[i]

\* An H256 with a set high-order byte and a set low-order byte was truncated
\* and embedded again: the low-order byte survived, the high-order one not.
C8_Witness ==
    /\ Len(ops) = 2
    /\ ops[1].name = "From<H256> for H160"
    /\ ops[2].name = "From<H160> for H256"
    /\ hist[1].v[1] = 255
    /\ hist[1].v[H256Bytes] = 1
    /\ hist[3].v[1] = 0
    /\ hist[3].v[H256Bytes] = 1

\* C9: for every nonzero U256 v the result of to_f64_lossy is finite and
\* |result - v| / v <= 2^-MantBits (2^-52 for binary64), in every limb tier.
C9_ToF64RelativeError ==
    \A i \in Steps :
        (ops[i].name = "to_f64_lossy" /\ ValueOf(Src(i).v) # 0) =>
            LET v == ValueOf(Src(i).v) * F64Unit
                f == Out(i).v[1]
            IN  /\ F64IsFinite(f)
                /\ F64Sign(f) = 0
                /\ Abs(F64Key(f) - v) * (2 ^ MantBits) <= v

\* A value with its top limb set and set bits below the shifted-out limbs
\* was converted to a float that differs from it.
C9_Witness ==
    /\ Len(ops) = 1
    /\ ops[1].name = "to_f64_lossy"
    /\ hist[1].v[4] # 0
    /\ hist[1].v[1] # 0
    /\ F64Key(hist[2].v[1]) # ValueOf(hist[1].v) * F64Unit

\* C10: from_f64_lossy has no arithmetic fault on any bit pattern: when the
\* `value >= 1.0` branch is taken the exponent field is at least the bias;
\* the right shift amount lies in 0 .. 52; the left shift moves no set bit
\* past the top bit, so the result is the exact significand * 2^shift.
C10_FromF64NoFault ==
    \A i \in Steps :
        ops[i].name = "from_f64_lossy" =>
            LET x == Src(i).v[1]
                e == from_f64_exponent(x)
                m == from_f64_mantissa(x)
            IN  /\ i = Len(ops) => fault = {}
                /\ from_f64_faults(x) = {}
                /\ from_f64_in_range(x) =>
                      /\ F64ExpField(x) >= Bias
                      /\ e = F64ExpField(x) - Bias
                      /\ from_f64_shifts_right(e) => (MantBits - e) \in 0 .. MantBits
                      /\ (~from_f64_shifts_right(e) /\ ~from_f64_saturates(e)) =>
                            /\ BitLen(m) + (e - MantBits) <= U256Bits
                            /\ ValueOf(Out(i).v) = m * (2 ^ (e - MantBits))

\* The largest float below 2^256 went through the left shift without fault.
C10_Witness ==
    /\ Len(ops) = 1
    /\ ops[1].name = "from_f64_lossy"
    /\ from_f64_exponent(hist[1].v[1]) = U256Bits - 1
    /\ F64Frac(hist[1].v[1]) = FracMask
    /\ fault = {}
    /\ hist[2].v[U256Limbs] = LimbMax

=============================================================================
